---- MODULE Spec2Model ----
(***************************************************************************)
(* Verification model of the maintenance utilities of                      *)
(* zone-kubeflow-containers:                                               *)
(*   - .github/scripts/vscode-extensions-updater.py  (script "updater")    *)
(*   - extension_checker.py                          (script "checker")    *)
(*   - extension_checker_with_pr.py                  (script "with_pr")    *)
(*   - images/base/adjust-server-resources.py                              *)
(*                                                                         *)
(* Text is modelled character by character: a Python str is a sequence of  *)
(* one-character strings, a build file is a sequence of lines (the line    *)
(* terminator is not stored; it is whitespace and ends every token exactly *)
(* as the end of the line does).  Python's None is the empty sequence <<>> *)
(* and a present value v is <<v>>, so that None and the empty string "" are *)
(* different values, as they are in Python.                                *)
(***************************************************************************)
EXTENDS Integers, Sequences, FiniteSets, TLC

VARIABLES
  script,        \* which program runs: "updater", "checker", "with_pr", "rewrite", "adjust"
  pc,            \* position of the running program
  src,           \* how the build file was written: one line description per line (never read by the program)
  dockerfile,    \* the build file in the working tree: a sequence of lines
  lineNo,        \* extract_extensions_and_vsix: number of lines read so far
  extensions,    \* extract_extensions_and_vsix: marketplace entries
  vsix_files,    \* extract_extensions_and_vsix: standalone .vsix identifiers
  github_vsix,   \* extract_extensions_and_vsix: hosted-release entries
  idx,           \* main loops: number of entries already handled in the current loop
  triples,       \* main loops: the (id, declared, latest) triples seen so far, in order
  outdated,      \* main: the list of reported updates (outdated / outdated_extensions)
  call,          \* arguments and result of the rewrite call under way or last made
  git,           \* create_individual_prs: the repository (master, local branches, remote)
  log,           \* create_individual_prs: the rewrite/commit/push/pull-request events, in order
  res,           \* adjust_server: the four inputs, the validated values, the executed command
  fs             \* CentralizedCheckpoints: the directories and checkpoint files on disk, the last call

vars == << script, pc, src, dockerfile, lineNo, extensions, vsix_files, github_vsix,
           idx, triples, outdated, call, git, log, res, fs >>

extractVars == << lineNo, extensions, vsix_files, github_vsix >>
mainVars    == << idx, triples, outdated >>

(***************************************************************************)
(* Bounds of the model.                                                    *)
(***************************************************************************)
\* Longest build file, in lines, of the extraction specification.
MaxLines == 2

(***************************************************************************)
(* Python values.                                                          *)
(***************************************************************************)
None == << >>
Some(v) == << v >>
\* Python truthiness of an optional string: None and "" are false.
Truthy(o) == o # None /\ o[1] # << >>

Min(S) == CHOOSE x \in S : \A y \in S : x <= y
Max(S) == CHOOSE x \in S : \A y \in S : x >= y

(***************************************************************************)
(* Text literals of the programs.                                          *)
(***************************************************************************)
CodeServer == << "c","o","d","e","-","s","e","r","v","e","r" >>
InstallExtension ==
  << "-","-","i","n","s","t","a","l","l","-","e","x","t","e","n","s","i","o","n" >>
DotVsix == << ".","v","s","i","x" >>
Wget == << "w","g","e","t" >>
GithubCom == << "g","i","t","h","u","b",".","c","o","m","/" >>
ReleasesDownload ==
  << "/","r","e","l","e","a","s","e","s","/","d","o","w","n","l","o","a","d","/" >>
\* "code-server --install-extension " as written by the two rewrite functions
DirectivePrefix == CodeServer \o << " " >> \o InstallExtension \o << " " >>

(***************************************************************************)
(* Regular-expression building blocks (Python's re, leftmost match,        *)
(* greedy quantifiers).                                                    *)
(***************************************************************************)
\* \s
IsSpace(c) == c \in { " ", "\t" }
\* [^\s@\\]
IsIdChar(c) == ~IsSpace(c) /\ c # "@" /\ c # "\\"
\* [^\s\\]
IsVerChar(c) == ~IsSpace(c) /\ c # "\\"
\* [^/]
IsNotSlash(c) == c # "/"
\* [0-9.]
IsNumDot(c) == c \in { "0","1","2","3","4","5","6","7","8","9","." }
\* [^\s]
IsNonSpace(c) == ~IsSpace(c)

\* the literal lit stands in s at position i
StartsAt(s, i, lit) ==
  /\ i >= 1
  /\ i + Len(lit) - 1 <= Len(s)
  /\ \A k \in 1..Len(lit) : s[i + k - 1] = lit[k]

\* str.endswith
EndsWith(s, suffix) ==
  Len(s) >= Len(suffix) /\ StartsAt(s, Len(s) - Len(suffix) + 1, suffix)

\* `lit in s`
Contains(s, lit) == \E i \in 1..Len(s) : StartsAt(s, i, lit)

\* membership of character c in the class written cls in the expressions
InClass(cls, c) ==
  CASE cls = "\\s"        -> IsSpace(c)
    [] cls = "[^\\s@\\\\]" -> IsIdChar(c)
    [] cls = "[^\\s\\\\]"  -> IsVerChar(c)
    [] cls = "[^/]"       -> IsNotSlash(c)
    [] cls = "[0-9.]"     -> IsNumDot(c)
    [] cls = "[^\\s]"     -> IsNonSpace(c)

\* the position after the longest run of characters of class cls starting at i
RunEnd(s, i, cls) ==
  LET stop == { j \in i..Len(s) : ~InClass(cls, s[j]) }
  IN  IF stop = {} THEN Len(s) + 1 ELSE Min(stop)

(***************************************************************************)
(* extract_extensions_and_vsix: the two regular expressions.               *)
(***************************************************************************)
\* code-server\s+--install-extension\s+([^\s@\\]+)(?:@([^\s\\]+))? tried at
\* position p of line: None, or the two groups.  Every quantifier is followed
\* by a character outside its class, so the greedy runs never give back.
ExtMatchAt(line, p) ==
  IF ~StartsAt(line, p, CodeServer) THEN None
  ELSE
    LET q1 == p + Len(CodeServer)
        q2 == RunEnd(line, q1, "\\s")
    IN  IF q2 = q1 \/ ~StartsAt(line, q2, InstallExtension) THEN None
        ELSE
          LET q3 == q2 + Len(InstallExtension)
              q4 == RunEnd(line, q3, "\\s")
              q5 == RunEnd(line, q4, "[^\\s@\\\\]")
          IN  IF q4 = q3 \/ q5 = q4 THEN None
              ELSE
                LET q6 == RunEnd(line, q5 + 1, "[^\\s\\\\]")
                    hasVer == q5 <= Len(line) /\ line[q5] = "@" /\ q6 > q5 + 1
                IN  Some([ id |-> SubSeq(line, q4, q5 - 1),
                           version |-> IF hasVer THEN Some(SubSeq(line, q5 + 1, q6 - 1))
                                       ELSE None ])

\* re.search of the install-extension expression: the leftmost match
ExtSearch(line) ==
  LET hits == { p \in 1..Len(line) : ExtMatchAt(line, p) # None }
  IN  IF hits = {} THEN None ELSE ExtMatchAt(line, Min(hits))

\* github\.com/([^/]+/[^/]+)/releases/download/v?([0-9.]+)/([^\s]+\.vsix)
\* tried at position q of line: None, or the three groups.
WgetRestAt(line, q) ==
  IF ~StartsAt(line, q, GithubCom) THEN None
  ELSE
    LET a  == q + Len(GithubCom)
        e1 == RunEnd(line, a, "[^/]")
        e2 == RunEnd(line, e1 + 1, "[^/]")
    IN  IF e1 = a \/ e1 > Len(line) \/ e2 = e1 + 1
           \/ ~StartsAt(line, e2, ReleasesDownload) THEN None
        ELSE
          LET b  == e2 + Len(ReleasesDownload)
              \* v? : the optional v is taken when it is there
              b1 == IF b <= Len(line) /\ line[b] = "v" THEN b + 1 ELSE b
              c  == RunEnd(line, b1, "[0-9.]")
          IN  IF c = b1 \/ c > Len(line) \/ line[c] # "/" THEN None
              ELSE
                LET d == c + 1
                    e == RunEnd(line, d, "[^\\s]")
                    \* [^\s]+ gives characters back until \.vsix follows it
                    ends == { f \in (d + Len(DotVsix))..(e - 1) :
                                StartsAt(line, f - Len(DotVsix) + 1, DotVsix) }
                IN  IF ends = {} THEN None
                    ELSE Some([ repo |-> SubSeq(line, a, e2 - 1),
                                version |-> SubSeq(line, b1, c - 1),
                                file |-> SubSeq(line, d, Max(ends)) ])

\* re.search of wget.* followed by the expression above: the leftmost wget,
\* then the greedy .* reaches as far right as the rest still matches
WgetSearch(line) ==
  LET ws == { p \in 1..Len(line) : StartsAt(line, p, Wget) }
  IN  IF ws = {} THEN None
      ELSE
        LET qs == { q \in (Min(ws) + Len(Wget))..Len(line) : WgetRestAt(line, q) # None }
        IN  IF qs = {} THEN None ELSE WgetRestAt(line, Max(qs))

\* NewExtensions with the version made mandatory: a directive without @version
\* is dropped
NewExtensionsVersioned(line) ==
  LET m == ExtSearch(line)
  IN  IF m # None /\ ~EndsWith(m[1].id, DotVsix) /\ m[1].version # None
      THEN << m[1] >> ELSE << >>

\* NewExtensions without the .vsix test: archives are listed as marketplace
\* entries too
NewExtensionsAnyId(line) ==
  LET m == ExtSearch(line)
  IN  IF m # None THEN << m[1] >> ELSE << >>

\* lines 43-48: what one line adds to the marketplace list
NewExtensions(line) ==
  LET m == ExtSearch(line)
  IN  IF m # None /\ ~EndsWith(m[1].id, DotVsix) THEN << m[1] >> ELSE << >>

\* NewVsixFiles with the suffix tested on the whole token: x.vsix@1 is missed
NewVsixFilesUnversioned(line) ==
  LET m == ExtSearch(line)
  IN  IF m # None /\ EndsWith(m[1].id, DotVsix) /\ m[1].version = None
      THEN << m[1].id >> ELSE << >>

\* lines 43-46: what one line adds to the standalone .vsix list
NewVsixFiles(line) ==
  LET m == ExtSearch(line)
  IN  IF m # None /\ EndsWith(m[1].id, DotVsix) THEN << m[1].id >> ELSE << >>

\* NewGithubVsix with a lazy .*? after wget: the first download of the line
\* that matches is taken, not the last
NewGithubVsixLeftmost(line) ==
  LET ws == { p \in 1..Len(line) : StartsAt(line, p, Wget) }
      qs == IF ws = {} THEN {}
            ELSE { q \in (Min(ws) + Len(Wget))..Len(line) : WgetRestAt(line, q) # None }
  IN  IF qs = {} THEN << >> ELSE << WgetRestAt(line, Min(qs))[1] >>

\* lines 51-57: what one line adds to the hosted-release list
NewGithubVsix(line) ==
  LET w == WgetSearch(line)
  IN  IF w # None THEN << w[1] >> ELSE << >>

\* The whole function on a file: the three lists after the last line.
RECURSIVE ExtractFrom(_, _)
ExtractFrom(f, n) ==
  IF n = 0 THEN [ extensions |-> << >>, vsix_files |-> << >>, github_vsix |-> << >> ]
  ELSE LET r == ExtractFrom(f, n - 1)
       IN  [ extensions  |-> r.extensions \o NewExtensions(f[n]),
             vsix_files  |-> r.vsix_files \o NewVsixFiles(f[n]),
             github_vsix |-> r.github_vsix \o NewGithubVsix(f[n]) ]

(***************************************************************************)
(* How build-file lines are written.  A line description is                *)
(*   pre   text before the first directive ("RUN ", "    ", "# ")          *)
(*   wget  None, or a download of a release asset, with the downloads that *)
(*         come before it on the same line                                 *)
(*   dirs  the install directives of the line, left to right, each with    *)
(*         the whitespace after code-server (ws1) and after the option     *)
(*         (ws2), the identifier and the optional version                  *)
(*   suf   text after the last directive (" && \", "\", "")                *)
(* and Render writes the line out.  The program reads only the text.       *)
(***************************************************************************)
AndAnd == << " ", "&", "&", " " >>
Https  == << "h","t","t","p","s",":","/","/" >>

RenderDirective(d) ==
  CodeServer \o d.ws1 \o InstallExtension \o d.ws2 \o d.id
    \o (IF d.ver = None THEN << >> ELSE << "@" >> \o d.ver[1])

RenderDownload(w) ==
  Wget \o << " " >> \o Https \o GithubCom \o w.repo \o ReleasesDownload
    \o w.tag \o << "/" >> \o w.file

RECURSIVE RenderDownloads(_)
RenderDownloads(ws) ==
  IF ws = << >> THEN << >>
  ELSE RenderDownload(ws[1]) \o AndAnd \o RenderDownloads(Tail(ws))

RenderWget(w) == RenderDownloads(w.before) \o RenderDownload(w)

RECURSIVE RenderDirs(_)
RenderDirs(ds) ==
  IF ds = << >> THEN << >>
  ELSE IF Len(ds) = 1 THEN RenderDirective(ds[1])
  ELSE RenderDirective(ds[1]) \o AndAnd \o RenderDirs(Tail(ds))

Render(l) ==
  l.pre
    \o (IF l.wget = None THEN << >> ELSE RenderWget(l.wget[1]))
    \o (IF l.wget # None /\ l.dirs # << >> THEN AndAnd ELSE << >>)
    \o RenderDirs(l.dirs)
    \o l.suf

RenderFile(ls) == [ i \in 1..Len(ls) |-> Render(ls[i]) ]

(***************************************************************************)
(* Build files the programs are run on.                                    *)
(***************************************************************************)
Run   == << "R","U","N"," " >>
Cont  == << " ","&","&"," ","\\" >>
IdAB  == << "a",".","b" >>
IdCD  == << "c",".","d" >>
IdX   == << "x",".","v","s","i","x" >>
RepoOR == << "o","/","r" >>
V1    == << "1" >>
V2    == << "2" >>
V11   == << "1",".","1" >>
Sp    == << " " >>

Dir(id, ver) == [ ws1 |-> Sp, ws2 |-> Sp, id |-> id, ver |-> ver ]
DirWs(w1, w2, id, ver) == [ ws1 |-> w1, ws2 |-> w2, id |-> id, ver |-> ver ]
Line(pre, wget, dirs, suf) == [ pre |-> pre, wget |-> wget, dirs |-> dirs, suf |-> suf ]
RepoPQ == << "p","/","q" >>
Tgz   == << "x",".","t","g","z" >>
Download(repo, tag, file) == [ repo |-> repo, tag |-> tag, file |-> file ]
Asset(tag, file) == Some([ repo |-> RepoOR, tag |-> tag, file |-> file, before |-> << >> ])
\* a download of repo after the downloads `before` on the same line
AssetAfter(before, repo, tag, file) ==
  Some([ repo |-> repo, tag |-> tag, file |-> file, before |-> before ])

\* The lines of the extraction specification.
ExtractLines ==
  { Line(Run, None, << Dir(IdAB, Some(V1)) >>, Cont),
    Line(Sp, None, << Dir(IdAB, None) >>, << >>),
    Line(Sp, None, << DirWs(<< " ", "\t" >>, << " ", " " >>, IdCD, Some(V11)) >>, << "\\" >>),
    Line(Run, None, << Dir(IdX, None) >>, << >>),
    Line(Sp, None, << Dir(IdX, Some(V1)) >>, Cont),
    Line(Run, None, << Dir(IdAB, Some(V1)), Dir(IdCD, Some(V2)) >>, << >>),
    Line(Run, None, << Dir(IdCD, None), Dir(IdX, None) >>, << >>),
    Line(Run, Asset(<< "v","1",".","2" >>, IdX), << >>, Cont),
    Line(Run, Asset(<< "1",".","2" >>, IdX), << Dir(IdX, None) >>, << >>),
    Line(<< "#", " " >>, None, << >>, << "e","d","i","t","o","r" >>),
    \* two downloads on one line
    Line(Run, AssetAfter(<< Download(RepoOR, << "v","1",".","2" >>, IdX) >>,
                         RepoPQ, << "2",".","0" >>, IdX), << >>, Cont),
    \* a .vsix download followed by the download of another kind of asset
    Line(Run, AssetAfter(<< Download(RepoOR, << "v","1",".","2" >>, IdX) >>,
                         RepoPQ, << "2" >>, Tgz), << >>, << >>),
    \* a tag that is no dotted number
    Line(Run, Asset(<< "v","1","-","r","c" >>, IdX), << >>, Cont),
    \* the download is saved under another name
    Line(Run, Asset(<< "v","1",".","2" >>, IdX), << >>, << " ","-","O"," ","y",".","v","s","i","x" >>),
    \* no identifier before the @
    Line(Run \o CodeServer \o Sp \o InstallExtension \o Sp \o << "@","1" >>, None, << >>, << >>) }

RECURSIVE SeqsUpTo(_, _)
\* the sequences of at most n elements of S
SeqsUpTo(S, n) ==
  IF n = 0 THEN { << >> }
  ELSE LET shorter == SeqsUpTo(S, n - 1)
       IN  shorter \cup { Append(q, x) : q \in shorter, x \in S }

NoCall == [ fn |-> "", ext_id |-> << >>, old_version |-> << >>, new_version |-> << >>,
            before |-> << >>, ret |-> FALSE ]
Master == << "m","a","s","t","e","r" >>
\* A fresh clone standing on master: the build file of origin/master, the local
\* branches other than master with the build file each holds, the branch
\* checked out, what was pushed and the pull requests asked for, in order.
Clone(file) == [ master |-> file, heads |-> << >>, head |-> Master,
                 pushed |-> << >>, prs |-> << >> ]
\* No notebook server runs: nothing on disk, no call made.
NoFs   == [ dirs |-> {}, files |-> {}, op |-> "", path |-> << >>, ret |-> << >> ]
NoRes  == [ cpu_request |-> << >>, ram_request |-> << >>, cpu_limit |-> << >>,
            ram_limit |-> << >>, cpu |-> << >>, ram |-> << >>, cmd |-> << >>,
            executed |-> << >> ]

\* The state when extract_extensions_and_vsix is entered on file ls.
Entered(prog, ls) ==
  /\ script = prog
  /\ pc = "extract"
  /\ src = ls
  /\ dockerfile = RenderFile(ls)
  /\ lineNo = 0
  /\ extensions = << >>
  /\ vsix_files = << >>
  /\ github_vsix = << >>
  /\ idx = 0
  /\ triples = << >>
  /\ outdated = << >>
  /\ call = NoCall
  /\ git = Clone(RenderFile(ls))
  /\ log = << >>
  /\ res = NoRes
  /\ fs = NoFs

(***************************************************************************)
(* extract_extensions_and_vsix, one action per line of the file.           *)
(***************************************************************************)
\* lines 40-57: the body of `for line in f`
ExtractLine ==
  /\ pc = "extract"
  /\ lineNo < Len(dockerfile)
  /\ LET line == dockerfile[lineNo + 1]
     IN  /\ extensions' = extensions \o NewExtensions(line)
         /\ vsix_files' = vsix_files \o NewVsixFiles(line)
         /\ github_vsix' = github_vsix \o NewGithubVsix(line)
  /\ lineNo' = lineNo + 1
  /\ UNCHANGED << script, pc, src, dockerfile, mainVars, call, git, log, res, fs >>

\* line 59: the file is exhausted, the three lists are returned to the main program
ExtractReturn ==
  /\ pc = "extract"
  /\ lineNo = Len(dockerfile)
  /\ pc' = "marketplace"
  /\ UNCHANGED << script, src, dockerfile, extractVars, mainVars, call, git, log, res, fs >>

InitExtract == \E ls \in SeqsUpTo(ExtractLines, MaxLines) : Entered("checker", ls)
NextExtract == ExtractLine \/ ExtractReturn
SpecExtract == InitExtract /\ [][NextExtract]_vars

(***************************************************************************)
(* What a build file declares, read off the way its lines were written.    *)
(***************************************************************************)
Entry(d) == [ id |-> d.id, version |-> d.ver ]
IsArchive(d) == EndsWith(d.id, DotVsix)

RECURSIVE FlatMap(_, _)
\* the concatenation of F(x) for the elements x of a sequence, in order
FlatMap(F(_), xs) ==
  IF xs = << >> THEN << >> ELSE F(Head(xs)) \o FlatMap(F, Tail(xs))

\* every directive of a line that names a marketplace extension
LineMarketplaceAll(l) ==
  LET ds == SelectSeq(l.dirs, LAMBDA d : ~IsArchive(d))
  IN  [ i \in 1..Len(ds) |-> Entry(ds[i]) ]
\* the leftmost directive of a line, when it names a marketplace extension
LineMarketplaceFirst(l) ==
  IF l.dirs # << >> /\ ~IsArchive(l.dirs[1]) THEN << Entry(l.dirs[1]) >> ELSE << >>
\* every directive of a line that names a .vsix archive
LineArchiveAll(l) ==
  LET ds == SelectSeq(l.dirs, IsArchive)
  IN  [ i \in 1..Len(ds) |-> ds[i].id ]
\* the leftmost directive of a line, when it names a .vsix archive
LineArchiveFirst(l) ==
  IF l.dirs # << >> /\ IsArchive(l.dirs[1]) THEN << l.dirs[1].id >> ELSE << >>

\* the lines read so far
SrcRead == SubSeq(src, 1, lineNo)

\* C1 (as stated): once the file is read, the marketplace list holds one
\* entry {id: A, version: B or absent} for every install directive A@B of
\* every line whose A is no .vsix archive, in file order.
C1_EveryDirective ==
  pc # "extract" => extensions = FlatMap(LineMarketplaceAll, src)

\* C1 (amended): after any number of lines, the marketplace list holds, in
\* line order and without de-duplication, exactly one entry {id: A, version: B
\* or absent} for every line read whose leftmost install directive is A@B (or A)
\* with A no .vsix archive, and nothing else; every id is non-empty.
C1_LeftmostDirective ==
  /\ extensions = FlatMap(LineMarketplaceFirst, SrcRead)
  /\ \A i \in 1..Len(extensions) : extensions[i].id # << >>

\* C1 witness: a file that declares the same identifier on two lines, once
\* with a version and once without, has been read to its end.
C1_Witness ==
  /\ pc = "marketplace"
  /\ Len(extensions) = 2
  /\ extensions[1].id = extensions[2].id
  /\ extensions[1].version # None
  /\ extensions[2].version = None

\* C2 (as stated): once the file is read, every install-extension identifier
\* of the file that ends in .vsix is in the standalone list, and no marketplace
\* entry's id ends in .vsix.
C2_EveryArchive ==
  pc # "extract" =>
    /\ vsix_files = FlatMap(LineArchiveAll, src)
    /\ \A i \in 1..Len(extensions) : ~EndsWith(extensions[i].id, DotVsix)

\* C2 (amended): the standalone list holds exactly the identifiers ending in
\* .vsix that are the leftmost install directive of a line read, with or
\* without an @version after them, and no marketplace entry's id ends in .vsix.
C2_LeftmostArchive ==
  /\ vsix_files = FlatMap(LineArchiveFirst, SrcRead)
  /\ \A i \in 1..Len(extensions) : ~EndsWith(extensions[i].id, DotVsix)

\* C2 witness: a line installing x.vsix@1 has been read and x.vsix went to the
\* standalone list only.
C2_Witness ==
  /\ lineNo = 1
  /\ src[1].dirs # << >>
  /\ src[1].dirs[1].id = IdX
  /\ src[1].dirs[1].ver # None
  /\ vsix_files = << IdX >>
  /\ extensions = << >>

\* C3 (as stated): reading a line adds an entry to at most one of the three
\* lists.
C3_OneOutputPerLine ==
  [][ Len(extensions') + Len(vsix_files') + Len(github_vsix')
        <= Len(extensions) + Len(vsix_files) + Len(github_vsix) + 1 ]_vars

\* C3 (amended): reading a line adds at most one entry to the marketplace and
\* standalone lists together (never to both) and at most one entry to the
\* hosted-release list; a line matching both expressions adds to two lists.
C3_OnePerExpression ==
  [][ /\ Len(extensions') + Len(vsix_files') <= Len(extensions) + Len(vsix_files) + 1
      /\ Len(github_vsix') <= Len(github_vsix) + 1
      /\ Len(extensions') >= Len(extensions)
      /\ Len(vsix_files') >= Len(vsix_files)
      /\ Len(github_vsix') >= Len(github_vsix) ]_vars

\* C3 witness: one line has been read and it added both a standalone archive
\* and a hosted-release entry.
C3_Witness ==
  lineNo = 1 /\ Len(vsix_files) = 1 /\ Len(github_vsix) = 1

\* a release tag of the shape v?<dotted number>, and the version it names
IsNumericDotted(s) == s # << >> /\ \A i \in 1..Len(s) : IsNumDot(s[i])
TagVersion(tag) == IF tag # << >> /\ tag[1] = "v" THEN Tail(tag) ELSE tag
\* the download w has the hosted-release shape
HasReleaseShape(w) ==
  /\ IsNumericDotted(TagVersion(w.tag))
  /\ Len(w.file) > Len(DotVsix) /\ EndsWith(w.file, DotVsix)
  /\ \A i \in 1..Len(w.file) : ~IsSpace(w.file[i])
Release(w) == [ repo |-> w.repo, version |-> TagVersion(w.tag), file |-> w.file ]
\* the downloads of a line, left to right
LineDownloads(l) ==
  IF l.wget = None THEN << >>
  ELSE l.wget[1].before \o << Download(l.wget[1].repo, l.wget[1].tag, l.wget[1].file) >>
\* the one hosted-release entry of a line that has a download of the shape:
\* that of the last such download
LineHosted(l) ==
  LET ws == SelectSeq(LineDownloads(l), HasReleaseShape)
  IN  IF ws = << >> THEN << >> ELSE << Release(ws[Len(ws)]) >>

RECURSIVE StrReplaceFrom(_, _, _, _)
\* s[i..].replace(old, new): left to right, matches do not overlap
StrReplaceFrom(s, i, old, new) ==
  LET hits == { j \in i..Len(s) : StartsAt(s, j, old) }
  IN  IF hits = {} THEN SubSeq(s, i, Len(s))
      ELSE LET m == Min(hits)
           IN  SubSeq(s, i, m - 1) \o new
                 \o StrReplaceFrom(s, m + Len(old), old, new)

\* str.replace(old, new), old not empty
StrReplace(s, old, new) == StrReplaceFrom(s, 1, old, new)

\* str.strip()
Strip(s) ==
  LET keep == { i \in 1..Len(s) : ~IsSpace(s[i]) }
  IN  IF keep = {} THEN << >> ELSE SubSeq(s, Min(keep), Max(keep))

\* str.lstrip('v')
LStripV(s) ==
  LET keep == { i \in 1..Len(s) : s[i] # "v" }
  IN  IF keep = {} THEN << >> ELSE SubSeq(s, Min(keep), Len(s))

RECURSIVE SedAtoms(_, _)
\* The basic regular expression text[i..] as a sequence of atoms: \c is the
\* character c, an unescaped . is any character, any other character is itself.
SedAtoms(text, i) ==
  IF i > Len(text) THEN << >>
  ELSE IF text[i] = "\\" /\ i < Len(text)
       THEN << [ any |-> FALSE, ch |-> text[i + 1] ] >> \o SedAtoms(text, i + 2)
  ELSE IF text[i] = "."
       THEN << [ any |-> TRUE, ch |-> "." ] >> \o SedAtoms(text, i + 1)
  ELSE << [ any |-> FALSE, ch |-> text[i] ] >> \o SedAtoms(text, i + 1)

RECURSIVE SedUnescape(_, _)
\* The replacement text[i..] of an s command: \c stands for c.
SedUnescape(text, i) ==
  IF i > Len(text) THEN << >>
  ELSE IF text[i] = "\\" /\ i < Len(text)
       THEN << text[i + 1] >> \o SedUnescape(text, i + 2)
  ELSE << text[i] >> \o SedUnescape(text, i + 1)

SedMatchesAt(line, i, atoms) ==
  /\ i + Len(atoms) - 1 <= Len(line)
  /\ \A k \in 1..Len(atoms) : atoms[k].any \/ line[i + k - 1] = atoms[k].ch

RECURSIVE SedSubstituteFrom(_, _, _, _)
\* s/atoms/new/g on line[i..]
SedSubstituteFrom(line, i, atoms, new) ==
  LET hits == { j \in i..Len(line) : SedMatchesAt(line, j, atoms) }
  IN  IF hits = {} THEN SubSeq(line, i, Len(line))
      ELSE LET m == Min(hits)
           IN  SubSeq(line, i, m - 1) \o new
                 \o SedSubstituteFrom(line, m + Len(atoms), atoms, new)

(***************************************************************************)
(* The rewrite functions.  Both return the new file and the boolean.       *)
(***************************************************************************)
\* updater lines 116-131
replace_in_dockerfile(file, ext_id, old_version, new_version) ==
  LET target      == DirectivePrefix \o ext_id \o << "@" >> \o old_version
      replacement == DirectivePrefix \o ext_id \o << "@" >> \o new_version
      hit(line)   == Contains(line, target)
  IN  [ file |-> [ i \in 1..Len(file) |->
                     IF hit(file[i]) THEN StrReplace(file[i], target, replacement)
                     ELSE file[i] ],
        ret  |-> \E i \in 1..Len(file) : hit(file[i]) ]

\* The sed script is well formed: the s command is delimited by / and the
\* shell word by ', so neither may occur in what is pasted into it.
SedScriptRuns(ext_id, old_version, new_version) ==
  \A t \in { ext_id, old_version, new_version } :
    \A i \in 1..Len(t) : t[i] \notin { "/", "'" }

\* with_pr lines 62-72: sed -i 's/<directive old>/<directive new>/g', dots of
\* the identifier escaped, dots of the versions not; True unless sed fails
update_dockerfile(file, ext_id, old_version, new_version) ==
  LET escaped_ext_id == StrReplace(ext_id, << "." >>, << "\\", "." >>)
      pattern == SedAtoms(DirectivePrefix \o escaped_ext_id \o << "@" >> \o old_version, 1)
      new     == SedUnescape(DirectivePrefix \o escaped_ext_id \o << "@" >> \o new_version, 1)
  IN  IF SedScriptRuns(ext_id, old_version, new_version)
      THEN [ file |-> [ i \in 1..Len(file) |-> SedSubstituteFrom(file[i], 1, pattern, new) ],
             ret  |-> TRUE ]
      ELSE [ file |-> file, ret |-> FALSE ]

(***************************************************************************)
(* The registries.  A lookup gets one of these answers.                    *)
(***************************************************************************)
\* what a registry may put in the version / tag_name field
RegistryValues == { << >>, V1, V2, << "v", "2" >> }
Answer(kind, value) == [ kind |-> kind, value |-> value ]
Responses ==
  { Answer("connection_error", << >>),   \* requests.get raises
    Answer("status_404", << >>),         \* a status other than 200
    Answer("not_json", << >>),           \* 200, the body is no JSON: resp.json() raises
    Answer("no_field", << >>) }          \* 200, JSON without version / tag_name
  \cup { Answer("field", v) : v \in RegistryValues }

Returned(value) == [ exc |-> "", value |-> value ]
Raised(exc) == [ exc |-> exc, value |-> None ]

\* get_latest_openvsx_version (updater 62-80, checker 33-43, with_pr 42-52):
\* the whole body is inside try/except Exception
get_latest_openvsx_version(prog, ext_id, resp) ==
  IF ~Contains(ext_id, << "." >>) THEN Returned(None)            \* split: ValueError, caught
  ELSE IF resp.kind = "connection_error" THEN Returned(None)   \* caught
  ELSE IF resp.kind = "status_404" THEN Returned(None)
  ELSE IF resp.kind = "not_json" THEN Returned(None)           \* caught
  ELSE IF resp.kind = "no_field"
       THEN (IF prog = "updater" THEN Returned(Some(Strip(<< >>))) ELSE Returned(None))
  ELSE (IF prog = "updater" THEN Returned(Some(Strip(resp.value)))
        ELSE Returned(Some(resp.value)))

\* get_latest_github_release (updater 83-101, checker 45-51, with_pr 54-60):
\* no try/except
get_latest_github_release(prog, repo, resp) ==
  IF resp.kind = "connection_error" THEN Raised("ConnectionError")
  ELSE IF resp.kind = "status_404" THEN Returned(None)
  ELSE IF resp.kind = "not_json" THEN Raised("JSONDecodeError")
  ELSE IF resp.kind = "no_field"
       THEN (IF prog = "updater" THEN Returned(Some(Strip(LStripV(<< >>))))
             ELSE Raised("KeyError"))
  ELSE (IF prog = "updater" THEN Returned(Some(Strip(LStripV(resp.value))))
        ELSE Returned(Some(LStripV(resp.value))))

\* IsOutdated with `latest is not None` for `latest`: an empty latest version
\* counts as known
IsOutdatedLatestNotNone(latest, version) ==
  latest # None /\ Truthy(version) /\ latest # version

\* `latest and version and latest != version` (updater 209/222, checker 59/71,
\* with_pr 126/136)
IsOutdated(latest, version) ==
  Truthy(latest) /\ Truthy(version) /\ latest # version

(***************************************************************************)
(* The main programs: the marketplace loop, then the hosted-release loop.  *)
(* `outdated` is the list of reported updates: `outdated` of the updater,  *)
(* `outdated_extensions` of with_pr, the lines printed with UPDATE         *)
(* AVAILABLE by the checker (which keeps no list).                         *)
(***************************************************************************)
Update(id, old_version, new_version) ==
  [ id |-> id, old_version |-> old_version, new_version |-> new_version ]
Triple(id, declared, latest) == [ id |-> id, declared |-> declared, latest |-> latest ]

\* One entry found outdated: the updater and the checker report it; with_pr
\* rewrites the build file first and reports the entry when that returned True
\* (with_pr 128-129 and 138-140; rewrite_id is the identifier handed to sed).
ReportOutdated(id, rewrite_id, old_version, new_version) ==
  IF script = "with_pr"
  THEN LET u == update_dockerfile(dockerfile, rewrite_id, old_version, new_version)
       IN  /\ dockerfile' = u.file
           /\ call' = [ fn |-> "update_dockerfile", ext_id |-> rewrite_id,
                        old_version |-> old_version, new_version |-> new_version,
                        before |-> dockerfile, ret |-> u.ret ]
           /\ outdated' = IF u.ret THEN Append(outdated, Update(id, old_version, new_version))
                          ELSE outdated
  ELSE /\ outdated' = Append(outdated, Update(id, old_version, new_version))
       /\ UNCHANGED << dockerfile, call >>

\* updater 207-217, checker 57-62, with_pr 124-131: one marketplace entry
MarketplaceEntry ==
  /\ pc = "marketplace"
  /\ idx < Len(extensions)
  /\ \E resp \in Responses :
       LET ext    == extensions[idx + 1]
           latest == get_latest_openvsx_version(script, ext.id, resp).value
       IN  /\ triples' = Append(triples, Triple(ext.id, ext.version, latest))
           /\ IF IsOutdated(latest, ext.version)
              THEN ReportOutdated(ext.id, ext.id, ext.version[1], latest[1])
              ELSE UNCHANGED << outdated, dockerfile, call >>
  /\ idx' = idx + 1
  /\ UNCHANGED << script, pc, src, extractVars, git, log, res, fs >>

\* the marketplace loop ends
MarketplaceDone ==
  /\ pc = "marketplace"
  /\ idx = Len(extensions)
  /\ pc' = "hosted"
  /\ idx' = 0
  /\ UNCHANGED << script, src, dockerfile, extractVars, triples, outdated, call, git, log, res, fs >>

\* updater 220-230, checker 69-74, with_pr 134-142: one hosted-release
\* entry whose lookup returns
HostedEntry ==
  /\ pc = "hosted"
  /\ idx < Len(github_vsix)
  /\ \E resp \in Responses :
       LET gvsix  == github_vsix[idx + 1]
           r      == get_latest_github_release(script, gvsix.repo, resp)
           latest == r.value
           vsix_id == StrReplace(gvsix.file, DotVsix, << >>)
       IN  /\ r.exc = ""
           /\ triples' = Append(triples, Triple(gvsix.file, Some(gvsix.version), latest))
           /\ IF IsOutdated(latest, Some(gvsix.version))
              THEN ReportOutdated(gvsix.file, vsix_id, gvsix.version, latest[1])
              ELSE UNCHANGED << outdated, dockerfile, call >>
  /\ idx' = idx + 1
  /\ UNCHANGED << script, pc, src, extractVars, git, log, res, fs >>

\* the same, the lookup raises: nothing catches the exception and the program
\* ends with it
HostedLookupRaises ==
  /\ pc = "hosted"
  /\ idx < Len(github_vsix)
  /\ \E resp \in Responses :
       LET r == get_latest_github_release(script, github_vsix[idx + 1].repo, resp)
       IN  /\ r.exc # ""
           /\ pc' = r.exc
  /\ UNCHANGED << script, src, dockerfile, extractVars, mainVars, call, git, log, res, fs >>

\* the hosted-release loop ends: updater 232-237, checker (end of file),
\* with_pr 144
HostedDone ==
  /\ pc = "hosted"
  /\ idx = Len(github_vsix)
  /\ pc' = CASE script = "updater" /\ outdated # << >> -> "create_individual_prs"
             [] script = "with_pr" -> "create_github_pull_request"
             [] OTHER -> "done"
  /\ idx' = 0
  /\ UNCHANGED << script, src, dockerfile, extractVars, triples, outdated, call, git, log, res, fs >>

\* The lines of the main programs' build files.
IdE == << "e" >>
MainLines ==
  { Line(Run, None, << Dir(IdAB, Some(V1)) >>, Cont),
    Line(Sp, None, << Dir(IdAB, Some(V2)) >>, << >>),
    Line(Sp, None, << Dir(IdAB, None) >>, Cont),
    Line(Sp, None, << Dir(IdE, Some(V1)) >>, << >>),
    Line(Run, Asset(<< "v", "1" >>, IdX), << >>, Cont) }

\* Longest build file, in lines, of the main programs' specification.
MaxMainLines == 2

Scripts == { "updater", "checker", "with_pr" }

InitMain ==
  \E prog \in Scripts, ls \in SeqsUpTo(MainLines, MaxMainLines) : Entered(prog, ls)
NextMain ==
  \/ ExtractLine
  \/ ExtractReturn
  \/ MarketplaceEntry
  \/ MarketplaceDone
  \/ HostedEntry
  \/ HostedLookupRaises
  \/ HostedDone
SpecMain == InitMain /\ [][NextMain]_vars

\* whether a triple is an update: both versions known and different
TripleIsUpdate(t) ==
  /\ t.latest # None
  /\ t.latest[1] # << >>
  /\ t.declared # None
  /\ t.latest[1] # t.declared[1]

C5_LookupNeverRaises ==
  pc \notin { "ConnectionError", "JSONDecodeError", "KeyError" }

(***************************************************************************)
(* The rewrite functions called on their own, for any file and arguments.  *)
(***************************************************************************)
V111 == << "1","1","1" >>
RewriteLines ==
  { Line(Run, None, << Dir(IdAB, Some(V1)) >>, Cont),
    Line(Sp, None, << Dir(IdAB, Some(V11)) >>, << >>),
    Line(Sp, None, << Dir(IdAB, Some(V111)) >>, << >>),
    Line(Sp, None, << Dir(IdCD, Some(V1)) >>, Cont),
    Line(Sp, None, << DirWs(<< " ", " " >>, Sp, IdAB, Some(V1)) >>, << >>),
    Line(Run, None, << Dir(IdAB, Some(V1)), Dir(IdAB, Some(V1)) >>, << >>),
    Line(<< "#", " " >>, None, << >>, << "e","d","i","t","o","r" >>) }

\* Longest build file, in lines, of the rewrite specification.
MaxRewriteLines == 2

RewriteFns == { "replace_in_dockerfile", "update_dockerfile" }

InitRewrite ==
  \E ls \in SeqsUpTo(RewriteLines, MaxRewriteLines) \ { << >> }, fn \in RewriteFns,
     id \in { IdAB, IdCD }, old \in { V1, V11 }, new \in { V2 } :
    /\ script = "rewrite"
    /\ pc = "call"
    /\ src = ls
    /\ dockerfile = RenderFile(ls)
    /\ lineNo = 0
    /\ extensions = << >>
    /\ vsix_files = << >>
    /\ github_vsix = << >>
    /\ idx = 0
    /\ triples = << >>
    /\ outdated = << >>
    /\ call = [ fn |-> fn, ext_id |-> id, old_version |-> old, new_version |-> new,
                before |-> RenderFile(ls), ret |-> FALSE ]
    /\ git = Clone(RenderFile(ls))
    /\ log = << >>
    /\ res = NoRes
    /\ fs = NoFs

\* replace_in_dockerfile(ext_id, old_version, new_version) runs and returns
CallReplaceInDockerfile ==
  /\ pc = "call"
  /\ call.fn = "replace_in_dockerfile"
  /\ LET r == replace_in_dockerfile(dockerfile, call.ext_id, call.old_version, call.new_version)
     IN  /\ dockerfile' = r.file
         /\ call' = [ call EXCEPT !.ret = r.ret ]
  /\ pc' = "returned"
  /\ UNCHANGED << script, src, extractVars, mainVars, git, log, res, fs >>

\* update_dockerfile(ext_id, old_version, new_version) runs and returns
CallUpdateDockerfile ==
  /\ pc = "call"
  /\ call.fn = "update_dockerfile"
  /\ LET r == update_dockerfile(dockerfile, call.ext_id, call.old_version, call.new_version)
     IN  /\ dockerfile' = r.file
         /\ call' = [ call EXCEPT !.ret = r.ret ]
  /\ pc' = "returned"
  /\ UNCHANGED << script, src, extractVars, mainVars, git, log, res, fs >>

NextRewrite == CallReplaceInDockerfile \/ CallUpdateDockerfile
SpecRewrite == InitRewrite /\ [][NextRewrite]_vars

\* the old version-qualified directive, as text
OldDirective == DirectivePrefix \o call.ext_id \o << "@" >> \o call.old_version

\* C6: a rewrite returns false when no line of the build file contains the old
\* version-qualified directive, and returns true only when the file was changed
\* by at least one substitution.
C6_RewriteResult ==
  pc = "returned" =>
    /\ (\A i \in 1..Len(call.before) : ~Contains(call.before[i], OldDirective))
         => call.ret = FALSE
    /\ call.ret = TRUE => dockerfile # call.before

\* the line description l with every directive ext_id@old turned into ext_id@new
Retarget(l, ext_id, old, new) ==
  [ l EXCEPT !.dirs = [ i \in 1..Len(l.dirs) |->
      IF l.dirs[i].id = ext_id /\ l.dirs[i].ver = Some(old)
      THEN [ l.dirs[i] EXCEPT !.ver = Some(new) ]
      ELSE l.dirs[i] ] ]

\* C7: replace_in_dockerfile keeps the number and order of lines, and every
\* line is either unchanged or is the line with its directives ext_id@old_version
\* (that identifier exactly, that version exactly) turned into ext_id@new_version.
C7_RewriteFrame ==
  (pc = "returned" /\ call.fn = "replace_in_dockerfile") =>
    /\ Len(dockerfile) = Len(call.before)
    /\ \A i \in 1..Len(dockerfile) :
         \/ dockerfile[i] = call.before[i]
         \/ dockerfile[i] =
              Render(Retarget(src[i], call.ext_id, call.old_version, call.new_version))

(***************************************************************************)
(* The updater's create_individual_prs.  The repository is a fresh clone:  *)
(* master is the only local branch.  git.heads lists the other local       *)
(* branches, each with the build file of its tip.                          *)
(***************************************************************************)
BranchNames(g) == { g.heads[i].name : i \in 1..Len(g.heads) }
TreeOf(g, name) ==
  LET i == CHOOSE k \in 1..Len(g.heads) : g.heads[k].name = name
  IN  g.heads[i].tree

\* updater 153-154: "update/" + the identifier with . / @ turned into - (and
\* .vsix removed, once the dots are gone) + "-" + the new version
branch_name(ext) ==
  LET short_id == StrReplace(StrReplace(StrReplace(StrReplace(ext.id,
                    << "." >>, << "-" >>), << "/" >>, << "-" >>), << "@" >>, << "-" >>),
                    DotVsix, << >>)
  IN  << "u","p","d","a","t","e","/" >> \o short_id \o << "-" >> \o ext.new_version

Event(op, entry, ok) == [ op |-> op, entry |-> entry, ok |-> ok ]

\* updater 142-150: identity, fetch, checkout -B master origin/master
CreateIndividualPrs ==
  /\ pc = "create_individual_prs"
  /\ dockerfile' = git.master
  /\ git' = [ git EXCEPT !.head = Master ]
  /\ idx' = 0
  /\ pc' = "pr_branch"
  /\ UNCHANGED << script, src, extractVars, triples, outdated, call, log, res, fs >>

\* updater 152-162: the next entry; HEAD back on master with index and working
\* tree reset, then create_head (which raises when the branch exists) and checkout
PrBranch ==
  /\ pc = "pr_branch"
  /\ idx < Len(outdated)
  /\ dockerfile' = git.master
  /\ LET name == branch_name(outdated[idx + 1])
     IN  IF name \in BranchNames(git)
         THEN /\ git' = [ git EXCEPT !.head = Master ]
              /\ pc' = "GitCommandError"
         ELSE /\ git' = [ git EXCEPT !.head = name,
                            !.heads = Append(@, [ name |-> name, tree |-> git.master ]) ]
              /\ pc' = "pr_rewrite"
  /\ UNCHANGED << script, src, extractVars, mainVars, call, log, res, fs >>

\* updater 165-166: the rewrite; `continue` when it returned False
PrRewrite ==
  /\ pc = "pr_rewrite"
  /\ LET ext == outdated[idx + 1]
         r   == replace_in_dockerfile(dockerfile, ext.id, ext.old_version, ext.new_version)
     IN  /\ dockerfile' = r.file
         /\ call' = [ fn |-> "replace_in_dockerfile", ext_id |-> ext.id,
                      old_version |-> ext.old_version, new_version |-> ext.new_version,
                      before |-> dockerfile, ret |-> r.ret ]
         /\ log' = Append(log, Event("rewrite", idx + 1, r.ret))
         /\ pc' = IF r.ret THEN "pr_commit" ELSE "pr_branch"
         /\ idx' = IF r.ret THEN idx ELSE idx + 1
  /\ UNCHANGED << script, src, extractVars, triples, outdated, git, res, fs >>

\* updater 169-171: stage the build file and commit on the entry's branch
PrCommit ==
  /\ pc = "pr_commit"
  /\ git' = [ git EXCEPT !.heads =
                [ i \in 1..Len(@) |-> IF @[i].name = git.head
                                      THEN [ @[i] EXCEPT !.tree = dockerfile ] ELSE @[i] ] ]
  /\ log' = Append(log, Event("commit", idx + 1, TRUE))
  /\ pc' = "pr_push"
  /\ UNCHANGED << script, src, dockerfile, extractVars, mainVars, call, res, fs >>

\* updater 174: push the branch
PrPush ==
  /\ pc = "pr_push"
  /\ git' = [ git EXCEPT !.pushed =
                Append(@, [ name |-> git.head, tree |-> TreeOf(git, git.head) ]) ]
  /\ log' = Append(log, Event("push", idx + 1, TRUE))
  /\ pc' = "pr_request"
  /\ UNCHANGED << script, src, dockerfile, extractVars, mainVars, call, res, fs >>

\* updater 177-195: POST the pull request; every status is only printed
PrRequest ==
  /\ pc = "pr_request"
  /\ \E status \in { 201, 422, 500 } :
       git' = [ git EXCEPT !.prs = Append(@, [ head |-> git.head, base |-> Master,
                                                 status |-> status ]) ]
  /\ log' = Append(log, Event("pull_request", idx + 1, TRUE))
  /\ idx' = idx + 1
  /\ pc' = "pr_branch"
  /\ UNCHANGED << script, src, dockerfile, extractVars, triples, outdated, call, res, fs >>

\* the loop over the outdated entries ends and the function returns
PrLoopDone ==
  /\ pc = "pr_branch"
  /\ idx = Len(outdated)
  /\ pc' = "done"
  /\ UNCHANGED << script, src, dockerfile, extractVars, mainVars, call, git, log, res, fs >>

\* The lines of the updater's build files.
UpdaterLines ==
  { Line(Run, None, << Dir(IdAB, Some(V1)) >>, Cont),
    Line(Sp, None, << Dir(IdCD, Some(V1)) >>, Cont),
    Line(Sp, None, << DirWs(<< " ", " " >>, Sp, IdAB, Some(V1)) >>, << >>),
    Line(Run, Asset(<< "v", "1" >>, IdX), << >>, Cont) }

\* Longest build file, in lines, of the updater's specification.
MaxUpdaterLines == 2

InitUpdater ==
  \E ls \in SeqsUpTo(UpdaterLines, MaxUpdaterLines) : Entered("updater", ls)
NextUpdater ==
  \/ NextMain
  \/ CreateIndividualPrs
  \/ PrBranch
  \/ PrRewrite
  \/ PrCommit
  \/ PrPush
  \/ PrRequest
  \/ PrLoopDone
SpecUpdater == InitUpdater /\ [][NextUpdater]_vars

PrEnded == pc \in { "done", "GitCommandError" }
HasEvent(op, entry, ok) == \E k \in 1..Len(log) : log[k] = Event(op, entry, ok)
EventBefore(op, entry, ok, k) == \E j \in 1..(k - 1) : log[j] = Event(op, entry, ok)

\* commit, push and pull request of an entry come after its successful rewrite,
\* in that order
PrEventsOrdered ==
  \A k \in 1..Len(log) :
    /\ log[k].op = "commit" => EventBefore("rewrite", log[k].entry, TRUE, k)
    /\ log[k].op = "push" => EventBefore("commit", log[k].entry, TRUE, k)
    /\ log[k].op = "pull_request" => EventBefore("push", log[k].entry, TRUE, k)

\* an entry whose rewrite returned False has no commit, push or pull request
PrFailedEntrySkipped ==
  \A e \in 1..Len(outdated) :
    HasEvent("rewrite", e, FALSE) =>
      \A op \in { "commit", "push", "pull_request" } : ~HasEvent(op, e, TRUE)

\* when the function has ended, every entry after one whose rewrite returned
\* False was processed: its own rewrite was attempted
PrLaterEntriesProcessed ==
  PrEnded =>
    \A e \in 1..Len(outdated) :
      (\E f \in 1..(e - 1) : HasEvent("rewrite", f, FALSE)) =>
        (HasEvent("rewrite", e, TRUE) \/ HasEvent("rewrite", e, FALSE))

OnMaster(ext) == replace_in_dockerfile(git.master, ext.id, ext.old_version, ext.new_version)

\* C9: when create_individual_prs has ended on a list of n entries whose
\* rewrites succeed, it ran to completion, pushed n branches and asked for n
\* pull requests, and the k-th pushed branch holds master's build file with
\* only the k-th entry's substitution.
C9_OneBranchPerEntry ==
  ( /\ PrEnded
    /\ script = "updater"
    /\ outdated # << >>
    /\ \A e \in 1..Len(outdated) : OnMaster(outdated[e]).ret )
  => /\ pc = "done"
     /\ Len(git.pushed) = Len(outdated)
     /\ Len(git.prs) = Len(outdated)
     /\ \A k \in 1..Len(outdated) : git.pushed[k].tree = OnMaster(outdated[k]).file

\* replace_in_dockerfile has just returned, called for a marketplace entry
RewriteReturned ==
  /\ log # << >> /\ log[Len(log)].op = "rewrite"
  /\ ~EndsWith(call.ext_id, DotVsix)

\* C14: after replace_in_dockerfile(id, old_version, latest) has returned true
\* for a marketplace entry extracted with a differing latest version, extracting
\* the rewritten build file yields no marketplace entry for id with version
\* old_version (so that entry is not reported again); and replace_in_dockerfile
\* returns true for every entry that was extracted with a version.
C14_RewriteConverges ==
  RewriteReturned =>
    /\ call.ret = TRUE
    /\ LET again == ExtractFrom(dockerfile, Len(dockerfile)).extensions
       IN  \A k \in 1..Len(again) :
             ~(again[k].id = call.ext_id /\ again[k].version = Some(call.old_version))

(***************************************************************************)
(* adjust-server-resources.py.  A Python number is a record: kind "float"  *)
(* or "int" with its value v in hundredths (0.1 is 10, 14 is 1400), or the *)
(* floats "nan", "inf" and "-inf" that float() also parses.                 *)
(***************************************************************************)
PyFloat(v) == [ kind |-> "float", v |-> v ]
PyInt(v)   == [ kind |-> "int", v |-> v ]
NaN      == [ kind |-> "nan", v |-> 0 ]
PosInf   == [ kind |-> "inf", v |-> 0 ]
NegInf   == [ kind |-> "-inf", v |-> 0 ]
IsFinite(x) == x.kind \in { "float", "int" }

\* a < b in Python: False as soon as one side is nan
Less(a, b) ==
  /\ a.kind # "nan"
  /\ b.kind # "nan"
  /\ \/ a.kind = "-inf" /\ b.kind # "-inf"
     \/ b.kind = "inf" /\ a.kind # "inf"
     \/ IsFinite(a) /\ IsFinite(b) /\ a.v < b.v

\* a == b in Python
Equal(a, b) ==
  \/ IsFinite(a) /\ IsFinite(b) /\ a.v = b.v
  \/ a.kind = "inf" /\ b.kind = "inf"
  \/ a.kind = "-inf" /\ b.kind = "-inf"

\* round(x, 0): to the nearest whole number, halves to the even one; nan and
\* the infinities are returned as they are
Round0(x) ==
  IF ~IsFinite(x) THEN x
  ELSE LET lo == x.v - (x.v % 100)
           r  == x.v % 100
           up == r > 50 \/ (r = 50 /\ (lo \div 100) % 2 = 1)
       IN  PyFloat(IF up THEN lo + 100 ELSE lo)

\* "Convert to int if possible": x = int(x) when x == round(x, 0).  int() of
\* an infinity raises OverflowError.
ToIntIfWhole(x) ==
  IF ~Equal(x, Round0(x)) THEN [ exc |-> "", value |-> x ]
  ELSE IF IsFinite(x) THEN [ exc |-> "", value |-> PyInt(x.v) ]
  ELSE [ exc |-> "OverflowError", value |-> x ]

\* The common body of get_cpu_cores (10-40) and get_ram (43-73): the limit
\* defaults to the request, both are converted, then the three checks.
Validate(request, limit, lowest, highest) ==
  LET lim == IF limit = None THEN request ELSE limit[1]
      rq  == ToIntIfWhole(request)
      lm  == ToIntIfWhole(lim)
  IN  IF rq.exc # "" THEN [ exc |-> rq.exc, request |-> request, limit |-> lim ]
      ELSE IF lm.exc # "" THEN [ exc |-> lm.exc, request |-> rq.value, limit |-> lim ]
      ELSE IF \/ Less(rq.value, lowest)
              \/ Less(highest, lm.value)
              \/ Less(lm.value, rq.value)
           THEN [ exc |-> "ValueError", request |-> rq.value, limit |-> lm.value ]
      ELSE [ exc |-> "", request |-> rq.value, limit |-> lm.value ]

\* lines 31 and 34: 0.1 and 14 CPU cores
get_cpu_cores(cpu_request, cpu_limit) == Validate(cpu_request, cpu_limit, PyFloat(10), PyInt(1400))
\* lines 64 and 67: 1 and 48 GiB
get_ram(ram_request, ram_limit) == Validate(ram_request, ram_limit, PyInt(100), PyInt(4800))

\* lines 76-114: the four values pasted into the kubectl patch command
get_cmd(cpu_request, cpu_limit, ram_request, ram_limit) ==
  [ limits_cpu |-> cpu_limit, limits_memory |-> ram_limit,
    requests_cpu |-> cpu_request, requests_memory |-> ram_request ]

\* adjust_server 129: get_cpu_cores
AdjustCpu ==
  /\ pc = "adjust_server"
  /\ LET r == get_cpu_cores(res.cpu_request, res.cpu_limit)
     IN  IF r.exc # "" THEN pc' = r.exc /\ res' = res
         ELSE /\ pc' = "get_ram"
              /\ res' = [ res EXCEPT !.cpu = Some([ request |-> r.request, limit |-> r.limit ]) ]
  /\ UNCHANGED << script, src, dockerfile, extractVars, mainVars, call, git, log, fs >>

\* adjust_server 130: get_ram
AdjustRam ==
  /\ pc = "get_ram"
  /\ LET r == get_ram(res.ram_request, res.ram_limit)
     IN  IF r.exc # "" THEN pc' = r.exc /\ res' = res
         ELSE /\ pc' = "get_cmd"
              /\ res' = [ res EXCEPT !.ram = Some([ request |-> r.request, limit |-> r.limit ]) ]
  /\ UNCHANGED << script, src, dockerfile, extractVars, mainVars, call, git, log, fs >>

\* adjust_server 132-138: build the command
AdjustCmd ==
  /\ pc = "get_cmd"
  /\ res' = [ res EXCEPT !.cmd = Some(get_cmd(res.cpu[1].request, res.cpu[1].limit,
                                               res.ram[1].request, res.ram[1].limit)) ]
  /\ pc' = "os_system"
  /\ UNCHANGED << script, src, dockerfile, extractVars, mainVars, call, git, log, fs >>

\* adjust_server 140-141: execute it
AdjustExecute ==
  /\ pc = "os_system"
  /\ res' = [ res EXCEPT !.executed = res.cmd ]
  /\ pc' = "done"
  /\ UNCHANGED << script, src, dockerfile, extractVars, mainVars, call, git, log, fs >>

\* what the command line may give: float() of the argument
CpuInputs == { PyFloat(0), PyFloat(5), PyFloat(10), PyFloat(250), PyFloat(1400), PyFloat(1450),
               NaN, PosInf }
RamInputs == { PyFloat(50), PyFloat(100), PyFloat(250), PyFloat(4800), PyFloat(4900),
               NaN, PosInf, NegInf }

\* The positional arguments cpu_request ram_request [cpu_limit [ram_limit]]:
\* ram_limit can be given only after cpu_limit.
InitAdjust ==
  \E cr \in CpuInputs, rr \in RamInputs,
     cl \in { None } \cup { Some(x) : x \in CpuInputs },
     rl \in { None } \cup { Some(x) : x \in RamInputs } :
    /\ (rl # None => cl # None)
    /\ script = "adjust"
    /\ pc = "adjust_server"
    /\ src = << >>
    /\ dockerfile = << >>
    /\ lineNo = 0
    /\ extensions = << >>
    /\ vsix_files = << >>
    /\ github_vsix = << >>
    /\ idx = 0
    /\ triples = << >>
    /\ outdated = << >>
    /\ call = NoCall
    /\ git = Clone(<< >>)
    /\ log = << >>
    /\ res = [ NoRes EXCEPT !.cpu_request = cr, !.ram_request = rr,
                            !.cpu_limit = cl, !.ram_limit = rl ]
    /\ fs = NoFs
NextAdjust == AdjustCpu \/ AdjustRam \/ AdjustCmd \/ AdjustExecute
SpecAdjust == InitAdjust /\ [][NextAdjust]_vars

\* a <= b for numbers: true of no pair with a nan in it
AtMost(a, b) ==
  /\ a.kind # "nan"
  /\ b.kind # "nan"
  /\ \/ a.kind = "-inf"
     \/ b.kind = "inf"
     \/ IsFinite(a) /\ IsFinite(b) /\ a.v <= b.v

OrRequest(limit, request) == IF limit = None THEN request ELSE limit[1]

\* 0.1 <= cpu_request <= cpu_limit <= 14 and 1 <= ram_request <= ram_limit <= 48,
\* an omitted limit being the request
InputsInRange ==
  LET cl == OrRequest(res.cpu_limit, res.cpu_request)
      rl == OrRequest(res.ram_limit, res.ram_request)
  IN  /\ AtMost(PyFloat(10), res.cpu_request)
      /\ AtMost(res.cpu_request, cl)
      /\ AtMost(cl, PyFloat(1400))
      /\ AtMost(PyFloat(100), res.ram_request)
      /\ AtMost(res.ram_request, rl)
      /\ AtMost(rl, PyFloat(4800))

\* C10: the command is executed only when the inputs are in range, and then it
\* carries the request and limit values; for every other combination the run
\* ends with an error raised by the validation (ValueError; the OverflowError
\* of int() on an infinity is let pass here too), no command built and none
\* executed.
C10_ValidationGate ==
  /\ res.executed # None => InputsInRange
  /\ pc \in { "done", "ValueError", "OverflowError" } =>
       IF InputsInRange
       THEN /\ pc = "done"
            /\ res.executed # None
            /\ Equal(res.executed[1].requests_cpu, res.cpu_request)
            /\ Equal(res.executed[1].limits_cpu, OrRequest(res.cpu_limit, res.cpu_request))
            /\ Equal(res.executed[1].requests_memory, res.ram_request)
            /\ Equal(res.executed[1].limits_memory, OrRequest(res.ram_limit, res.ram_request))
       ELSE /\ pc \in { "ValueError", "OverflowError" }
            /\ res.cmd = None
            /\ res.executed = None

(***************************************************************************)
(* extension_checker_with_pr.py: create_github_pull_request.  The working  *)
(* tree is `dockerfile`, the commit checked out when the run starts holds   *)
(* git.master, and a branch update-vscode-extensions may be left from an    *)
(* earlier run.                                                             *)
(***************************************************************************)
\* with_pr line 11
BRANCH_NAME == << "u","p","d","a","t","e","-","v","s","c","o","d","e","-",
                  "e","x","t","e","n","s","i","o","n","s" >>
Main == << "m","a","i","n" >>

\* with_pr 75-77: nothing was reported, the function returns at once
WithPrNoUpdates ==
  /\ pc = "create_github_pull_request"
  /\ outdated = << >>
  /\ pc' = "done"
  /\ UNCHANGED << script, src, dockerfile, extractVars, mainVars, call, git, log, res, fs >>

\* with_pr 80-88: git config twice, then git checkout -b, which fails when the
\* branch exists (the function prints and returns) and otherwise starts the
\* branch at the current commit and keeps the working tree as it is
WithPrCheckout ==
  /\ pc = "create_github_pull_request"
  /\ outdated # << >>
  /\ IF BRANCH_NAME \in BranchNames(git)
     THEN /\ git' = git
          /\ log' = log \o << Event("config", 0, TRUE), Event("checkout", 0, FALSE) >>
          /\ pc' = "done"
     ELSE /\ git' = [ git EXCEPT !.head = BRANCH_NAME,
                        !.heads = Append(@, [ name |-> BRANCH_NAME, tree |-> git.master ]) ]
          /\ log' = log \o << Event("config", 0, TRUE), Event("checkout", 0, TRUE) >>
          /\ pc' = "with_pr_commit"
  /\ UNCHANGED << script, src, dockerfile, extractVars, mainVars, call, res, fs >>

\* with_pr 91-95: git add, then git commit, which exits with an error when
\* nothing is staged (check=True raises CalledProcessError, caught by nothing)
WithPrCommit ==
  /\ pc = "with_pr_commit"
  /\ IF dockerfile = TreeOf(git, git.head)
     THEN /\ git' = git
          /\ log' = log \o << Event("add", 0, TRUE), Event("commit", 0, FALSE) >>
          /\ pc' = "CalledProcessError"
     ELSE /\ git' = [ git EXCEPT !.heads =
                        [ i \in 1..Len(@) |-> IF @[i].name = git.head
                                              THEN [ @[i] EXCEPT !.tree = dockerfile ]
                                              ELSE @[i] ] ]
          /\ log' = log \o << Event("add", 0, TRUE), Event("commit", 0, TRUE) >>
          /\ pc' = "with_pr_push"
  /\ UNCHANGED << script, src, dockerfile, extractVars, mainVars, call, res, fs >>

\* with_pr 98: git push origin BRANCH_NAME
WithPrPush ==
  /\ pc = "with_pr_push"
  /\ git' = [ git EXCEPT !.pushed =
                Append(@, [ name |-> git.head, tree |-> TreeOf(git, git.head) ]) ]
  /\ log' = Append(log, Event("push", 0, TRUE))
  /\ pc' = "with_pr_request"
  /\ UNCHANGED << script, src, dockerfile, extractVars, mainVars, call, res, fs >>

\* with_pr 101-116: POST the pull request; every status is only printed
WithPrRequest ==
  /\ pc = "with_pr_request"
  /\ \E status \in { 201, 422, 500 } :
       git' = [ git EXCEPT !.prs = Append(@, [ head |-> BRANCH_NAME, base |-> Main,
                                                 status |-> status ]) ]
  /\ log' = Append(log, Event("pull_request", 0, TRUE))
  /\ pc' = "done"
  /\ UNCHANGED << script, src, dockerfile, extractVars, mainVars, call, res, fs >>

\* The lines of with_pr's build files.
WithPrLines ==
  { Line(Run, None, << Dir(IdAB, Some(V1)) >>, Cont),
    Line(Sp, None, << Dir(IdCD, Some(V2)) >>, << >>),
    Line(Sp, None, << DirWs(<< " ", " " >>, Sp, IdAB, Some(V1)) >>, << >>),
    Line(Run, Asset(<< "v", "1" >>, IdX), << >>, Cont) }

\* Longest build file, in lines, of with_pr's specification.
MaxWithPrLines == 2

\* with_pr is started on a build file, in a repository where the branch
\* update-vscode-extensions does or does not exist yet
InitWithPr ==
  \E ls \in SeqsUpTo(WithPrLines, MaxWithPrLines), branchLeft \in BOOLEAN :
    /\ script = "with_pr"
    /\ pc = "extract"
    /\ src = ls
    /\ dockerfile = RenderFile(ls)
    /\ lineNo = 0
    /\ extensions = << >>
    /\ vsix_files = << >>
    /\ github_vsix = << >>
    /\ idx = 0
    /\ triples = << >>
    /\ outdated = << >>
    /\ call = NoCall
    /\ git = [ Clone(RenderFile(ls)) EXCEPT !.heads =
                 IF branchLeft THEN << [ name |-> BRANCH_NAME, tree |-> << >> ] >>
                 ELSE << >> ]
    /\ log = << >>
    /\ res = NoRes
    /\ fs = NoFs
NextWithPr ==
  \/ NextMain
  \/ WithPrNoUpdates
  \/ WithPrCheckout
  \/ WithPrCommit
  \/ WithPrPush
  \/ WithPrRequest
SpecWithPr == InitWithPr /\ [][NextWithPr]_vars

\* the run of with_pr has ended by create_github_pull_request returning (a
\* run that an exception ended is not held to the claim)
WithPrEnded == pc = "done"
\* the git commands and requests issued after the branch was asked for
WithPrIssued(ops) == \E k \in 1..Len(log) : log[k].op \in ops
\* the build file differs from the one the run started on
WithPrModified == dockerfile # RenderFile(src)
\* one commit on update-vscode-extensions holding the build file as it is now
\* was pushed and proposed in one pull request
WithPrProposed ==
  /\ git.pushed = << [ name |-> BRANCH_NAME, tree |-> dockerfile ] >>
  /\ Len(git.prs) = 1 /\ git.prs[1].head = BRANCH_NAME

\* C13: in a run of extension_checker_with_pr the build file is modified only
\* for entries reported as updates; once the run has ended every modification
\* made to the build file is in the single commit that was pushed and proposed
\* in the pull request; when no entry was updated no git command and no
\* pull-request request was issued; when creating the branch failed there was
\* no add, commit, push or pull-request request and the build file is as it
\* was before the run.
C13_WithPrRun ==
  /\ WithPrModified => outdated # << >>
  /\ (WithPrEnded /\ WithPrModified) => WithPrProposed
  /\ (WithPrEnded /\ outdated = << >>) => log = << >> /\ git.pushed = << >> /\ git.prs = << >>
  /\ (\E k \in 1..Len(log) : log[k] = Event("checkout", 0, FALSE)) =>
       /\ ~WithPrIssued({ "add", "commit", "push", "pull_request" })
       /\ ~WithPrModified

(***************************************************************************)
(* images/cmd/custom_checkpoints.py: CentralizedCheckpoints.               *)
(* A notebook path is its directory and its file name.  A directory on     *)
(* disk is the sequence of its components, a checkpoint file is the         *)
(* directory it lies in, its file name and the notebook it is a copy of.    *)
(***************************************************************************)
\* the notebooks the server is asked about
NotebookPaths == { [ dir |-> "",     name |-> "a.ipynb" ],
                   [ dir |-> "work", name |-> "a.ipynb" ],
                   [ dir |-> "work", name |-> "b.ipynb" ] }

\* hashlib.sha256(path.encode()).hexdigest(): the digest of the whole path;
\* different paths have different digests (collision resistance)
Sha256Hex(path) == << "sha256", path.dir, path.name >>

\* lines 37-39: os.path.join('/opt/checkpoints', hash_path)
get_hashed_path(path) == << "/opt/checkpoints", Sha256Hex(path) >>

\* The checkpoints collaborator of the parent class, which the subclass does
\* not replace or configure: checkpoint_dir = '.ipynb_checkpoints' inside the
\* directory of the notebook, one file <name>-<checkpoint_id> per notebook.
ParentCheckpointDir(path) == << path.dir, ".ipynb_checkpoints" >>
ParentCheckpointPath(checkpoint_id, path) ==
  [ dir |-> ParentCheckpointDir(path), name |-> << path.name, checkpoint_id >>,
    of |-> path ]
\* the only checkpoint id the parent class hands out
CheckpointId == "checkpoint"

\* lines 55-59: the hashed directory is created, then the parent class copies
\* the notebook to its own checkpoint path and returns the checkpoint's id
create_checkpoint(disk, path) ==
  [ dirs  |-> disk.dirs \cup { get_hashed_path(path), ParentCheckpointDir(path) },
    files |-> disk.files \cup { ParentCheckpointPath(CheckpointId, path) },
    ret   |-> << CheckpointId >> ]

\* line 72: the parent class removes the checkpoint file, or answers 404 when
\* there is no such file
delete_checkpoint(disk, checkpoint_id, path) ==
  LET cp == ParentCheckpointPath(checkpoint_id, path)
  IN  IF cp \in disk.files
      THEN [ dirs |-> disk.dirs, files |-> disk.files \ { cp }, ret |-> << >> ]
      ELSE [ dirs |-> disk.dirs, files |-> disk.files, ret |-> << "HTTPError 404" >> ]

\* lines 87-88: checkpoint_dir is computed and dropped; the parent class
\* answers with the checkpoint at its own checkpoint path, if there is one
list_checkpoints(disk, path) ==
  [ dirs  |-> disk.dirs, files |-> disk.files,
    ret   |-> IF ParentCheckpointPath(CheckpointId, path) \in disk.files
              THEN << CheckpointId >> ELSE << >> ]

Served(op, path, out) ==
  /\ fs' = [ dirs |-> out.dirs, files |-> out.files, op |-> op, path |-> << path >>,
             ret |-> out.ret ]
  /\ UNCHANGED << script, pc, src, dockerfile, extractVars, mainVars, call, git, log, res >>

CreateCheckpoint ==
  /\ script = "checkpoints"
  /\ \E path \in NotebookPaths :
       Served("create_checkpoint", path, create_checkpoint(fs, path))

DeleteCheckpoint ==
  /\ script = "checkpoints"
  /\ \E path \in NotebookPaths, checkpoint_id \in { CheckpointId, "unknown" } :
       Served("delete_checkpoint", path, delete_checkpoint(fs, checkpoint_id, path))

ListCheckpoints ==
  /\ script = "checkpoints"
  /\ \E path \in NotebookPaths :
       Served("list_checkpoints", path, list_checkpoints(fs, path))

InitCheckpoints ==
  /\ script = "checkpoints"
  /\ pc = "serving"
  /\ src = << >>
  /\ dockerfile = << >>
  /\ lineNo = 0
  /\ extensions = << >>
  /\ vsix_files = << >>
  /\ github_vsix = << >>
  /\ idx = 0
  /\ triples = << >>
  /\ outdated = << >>
  /\ call = NoCall
  /\ git = Clone(<< >>)
  /\ log = << >>
  /\ res = NoRes
  /\ fs = NoFs
NextCheckpoints == CreateCheckpoint \/ DeleteCheckpoint \/ ListCheckpoints
SpecCheckpoints == InitCheckpoints /\ [][NextCheckpoints]_vars

\* the checkpoint files lying in directory d
StoredIn(d) == { f \in fs.files : f.dir = d }
\* f lies in or below the directory of the notebook it was taken of
InOwnDirectory(f) == f.dir[1] = f.of.dir

\* C11: after any sequence of create_checkpoint, list_checkpoints and
\* delete_checkpoint calls, every checkpoint that exists for a notebook path
\* lies in the centralized directory get_hashed_path(path) and not in the
\* notebook's own directory; list_checkpoints(path) returns the checkpoints
\* stored there; two different notebook paths never share a checkpoint
\* directory.
C11_CentralizedStorage ==
  /\ \A f \in fs.files : f.dir = get_hashed_path(f.of) /\ ~InOwnDirectory(f)
  /\ fs.op = "list_checkpoints" =>
       \A id \in { CheckpointId } :
         (\E k \in 1..Len(fs.ret) : fs.ret[k] = id)
           <=> (\E f \in StoredIn(get_hashed_path(fs.path[1])) : f.of = fs.path[1])
  /\ \A f, g \in fs.files : f.of # g.of => f.dir # g.dir

====
